---- MODULE Spec2Model ----
(***************************************************************************)
(* Model of apptest.py: the club membership and task tool whose database   *)
(* is a Google spreadsheet.  The Members worksheet is shared by every      *)
(* browser session; each session runs the script against a snapshot that   *)
(* load_data_cached() returns and writes a whole table back with           *)
(* ws.clear() followed by ws.update().                                     *)
(*                                                                         *)
(* Cell values.  A worksheet holds text.  get_all_records() turns a text   *)
(* that reads as a number into a Python number, and DataFrame.astype(str)  *)
(* turns it back into text on the way out.  A Python number n is written   *)
(* here as the string "#n", so that "7" (text) and "#7" (the integer 7)    *)
(* are different values, as they are for Python's ==.                      *)
(***************************************************************************)
EXTENDS Integers, Sequences, FiniteSets, TLC

\* ------------------------------------------------------------------ bounds
MaxRows == 3      \* longest table a register may build
MaxOps == 3       \* operations started from the pages in one behaviour
MaxCalls == 2     \* service functions called directly in one behaviour
MaxFails == 1     \* store calls that raise in one behaviour
MaxDirRows == 2   \* rows of a directory drawn for the pure functions
MaxTaskId == 100001  \* the largest TaskID random.randint draws (999999 in the code)
MaxGen == 2       \* TaskIDs generated one after the other for one frame

Sessions == {"s1", "s2"}
Names == {"a", "7"}
Roles == {"Dev", "Core Head", "Domain Head", "Associate Head", "Junior Head"}
Statuses == {"Active", "Pending", "Suspended"}
\* the roles the forms of the state machine choose from: every role but Dev
\* is handled alike outside the resolver
FormRoles == {"Dev", "Core Head"}
None == "None"

ExpectedColumns == {"Name", "Role", "Password", "Status", "ApprovedBy", "CreatedAt"}
Now == "now"

\* ------------------------------------------------------------ cell values
\* gspread's numericise: text that int() or float() accepts becomes a number.
Numericise(v) ==
    CASE v = "7" -> "#7"
      [] v = "123" -> "#123"
      [] v = "0123" -> "#123"
      [] v = "nan" -> "#nan"
      [] OTHER -> v

\* str() of a cell, as DataFrame.astype(str) and str(...) apply it.
Str(v) ==
    CASE v = "#7" -> "7"
      [] v = "#123" -> "123"
      [] v = "#nan" -> "nan"
      [] OTHER -> v

Passwords == {"pw", "password123", "0123", "123"}

\* hashlib.sha256(password.encode()).hexdigest(): 64 lower-case hex digits,
\* written "sha256:<password>"; "SHA256:<password>" is the same digest in
\* upper case.
hash_password(password) ==
    CASE password = "pw" -> "sha256:pw"
      [] password = "password123" -> "sha256:password123"
      [] password = "0123" -> "sha256:0123"
      [] password = "123" -> "sha256:123"
      [] OTHER -> "sha256:?"

LowerDigests == {hash_password(p) : p \in Passwords}
UpperOf(h) ==
    CASE h = "sha256:pw" -> "SHA256:pw"
      [] h = "sha256:password123" -> "SHA256:password123"
      [] h = "sha256:0123" -> "SHA256:0123"
      [] h = "sha256:123" -> "SHA256:123"
      [] OTHER -> h
UpperDigests == {UpperOf(h) : h \in LowerDigests}

\* str.lower() on a stored credential
Lower(v) == IF v \in UpperDigests THEN CHOOSE h \in LowerDigests : UpperOf(h) = v ELSE v

\* len(stored) == 64 and all(c in "0123456789abcdef" for c in stored.lower())
LooksLikeHash(stored) == Lower(stored) \in LowerDigests

\* ------------------------------------------------------------- data frames
\* A table (worksheet or DataFrame) is its set of columns and its rows; a row
\* carries every field, and a field whose column the table lacks is "".
MkRow(n, r, p, s, a, c, d, t) ==
    [Name |-> n, Role |-> r, Password |-> p, Status |-> s, ApprovedBy |-> a,
     CreatedAt |-> c, Domain |-> d, ReportsTo |-> t]

\* numericise_all on the cells of a record
NumericiseRow(r) ==
    MkRow(Numericise(r.Name), Numericise(r.Role), Numericise(r.Password),
          Numericise(r.Status), Numericise(r.ApprovedBy), Numericise(r.CreatedAt),
          Numericise(r.Domain), Numericise(r.ReportsTo))

\* astype(str) on the cells of a row
StrRow(r) ==
    MkRow(Str(r.Name), Str(r.Role), Str(r.Password), Str(r.Status), Str(r.ApprovedBy),
          Str(r.CreatedAt), Str(r.Domain), Str(r.ReportsTo))

EmptySheet == [cols |-> {}, rows |-> <<>>]
EmptyFrame == [cols |-> ExpectedColumns, rows |-> <<>>]

IsEmpty(d) == Len(d.rows) = 0

NameSet(d) == {d.rows[i].Name : i \in 1..Len(d.rows)}
Matching(d, name) == {i \in 1..Len(d.rows) : d.rows[i].Name = name}
Min(S) == CHOOSE x \in S : \A y \in S : x <= y
FirstIdx(d, name) == Min(Matching(d, name))

\* the members half of load_data_cached: records are numericised, and the
\* expected columns a non-empty table lacks are added with their defaults
LoadRow(cols, r) ==
    LET n == NumericiseRow(r)
    IN [n EXCEPT !.Name = IF "Name" \in cols THEN @ ELSE "",
                 !.Role = IF "Role" \in cols THEN @ ELSE "",
                 !.Password = IF "Password" \in cols THEN @ ELSE "",
                 !.Status = IF "Status" \in cols THEN @ ELSE "Active",
                 !.ApprovedBy = IF "ApprovedBy" \in cols THEN @ ELSE "System",
                 !.CreatedAt = IF "CreatedAt" \in cols THEN @ ELSE Now]

load_members(sheet) ==
    IF Len(sheet.rows) = 0
    THEN EmptyFrame
    ELSE [cols |-> sheet.cols \cup ExpectedColumns,
          rows |-> [i \in 1..Len(sheet.rows) |-> LoadRow(sheet.cols, sheet.rows[i])]]

\* df.astype(str).values.tolist() under the header row
SheetRows(d) == [i \in 1..Len(d.rows) |-> StrRow(d.rows[i])]

\* ws.update('A1:Z<n>', data): the header and the first Len(d.rows) data rows
\* are replaced, whatever lies below them stays
UpdateRange(sheet, d) ==
    [cols |-> d.cols,
     rows |-> SheetRows(d) \o SubSeq(sheet.rows, Len(d.rows) + 1, Len(sheet.rows))]

\* ---------------------------------------------------------------- Tasks table
\* random.randint(100000, 999999): the smallest TaskID
MinTaskId == 100000
TaskIdRange == MinTaskId..MaxTaskId

\* the Python integer n as a cell value, and the numbers a cell of the Tasks
\* table is compared with
Num(n) == "#" \o ToString(n)
TaskNumbers == (MinTaskId - 1)..(MaxTaskId + 1)

\* numericise and str() on the cells of the Tasks table
NumericiseCell(v) ==
    IF \E n \in TaskNumbers : v = ToString(n)
    THEN Num(CHOOSE n \in TaskNumbers : v = ToString(n))
    ELSE Numericise(v)

StrCell(v) ==
    IF \E n \in TaskNumbers : v = Num(n)
    THEN ToString(CHOOSE n \in TaskNumbers : v = Num(n))
    ELSE Str(v)

TaskColumns ==
    {"TaskID", "TaskName", "AssignedTo", "Role", "Status", "Deadline", "Priority", "Description"}
TaskStatuses == {"Pending", "In Progress", "Completed"}

\* a task row; TaskName, Deadline, Priority and Description are form texts
\* that no code path reads back, one column stands for the four
MkTask(id, to, role, status, name) ==
    [TaskID |-> id, AssignedTo |-> to, Role |-> role, Status |-> status, TaskName |-> name]

NumericiseTask(r) ==
    MkTask(NumericiseCell(r.TaskID), NumericiseCell(r.AssignedTo), NumericiseCell(r.Role),
           NumericiseCell(r.Status), NumericiseCell(r.TaskName))

StrTask(r) ==
    MkTask(StrCell(r.TaskID), StrCell(r.AssignedTo), StrCell(r.Role), StrCell(r.Status),
           StrCell(r.TaskName))

EmptyTasks == [cols |-> TaskColumns, rows |-> <<>>]

\* the tasks half of load_data_cached
load_tasks(sheet) ==
    IF Len(sheet.rows) = 0
    THEN EmptyTasks
    ELSE [cols |-> sheet.cols, rows |-> [i \in 1..Len(sheet.rows) |-> NumericiseTask(sheet.rows[i])]]

\* update_tasks_sheet_optimized's ws.update('A1:Z<n>', data)
TaskSheetRows(d) == [i \in 1..Len(d.rows) |-> StrTask(d.rows[i])]
TasksUpdateRange(sheet, d) ==
    [cols |-> d.cols,
     rows |-> TaskSheetRows(d) \o SubSeq(sheet.rows, Len(d.rows) + 1, Len(sheet.rows))]

\* pd.to_numeric(tasks_df["TaskID"], errors="coerce").dropna().astype(int)
IsTaskNumber(v) == \E n \in TaskNumbers : v = Num(n)
NoExistingIds(d) == {}
existing_ids(d) == {d.rows[i].TaskID : i \in {j \in 1..Len(d.rows) : IsTaskNumber(d.rows[j].TaskID)}}

\* generate_unique_taskid: the values its sampling can return
generate_unique_taskid(d) ==
    IF IsEmpty(d) \/ "TaskID" \notin d.cols
    THEN {Num(n) : n \in TaskIdRange}
    ELSE {Num(n) : n \in TaskIdRange} \ existing_ids(d)

\* ------------------------------------------------------ Role Hierarchy Resolver
\* df[mask]["Name"].tolist()
NameColumn(sel) == [i \in 1..Len(sel) |-> sel[i].Name]

\* the mask of each branch of get_subordinates
DevSeesAnyStatus(r) == TRUE
DevSees(r) == r.Status = "Active"

CoreHeadSeesDomainHeadsOnly(r) == r.Role = "Domain Head" /\ r.Status = "Active"
CoreHeadSees(r) == r.Role \in {"Domain Head", "Core Head"} /\ r.Status = "Active"

get_subordinates(member_name, d) ==
    IF IsEmpty(d) THEN <<>>
    ELSE IF "Name" \notin d.cols \/ Matching(d, member_name) = {} THEN <<>>
    ELSE IF "Role" \notin d.cols \/ "Status" \notin d.cols THEN <<>>   \* KeyError, caught
    ELSE LET member_row == d.rows[FirstIdx(d, member_name)]
             member_role == member_row.Role
         IN CASE member_role = "Dev" ->
                   NameColumn(SelectSeq(d.rows, DevSees))
              [] member_role = "Core Head" ->
                   NameColumn(SelectSeq(d.rows, CoreHeadSees))
              [] member_role = "Domain Head" ->
                   IF "Domain" \in d.cols
                   THEN NameColumn(SelectSeq(d.rows, LAMBDA r : r.Role = "Associate Head"
                                                 /\ r.Domain = member_row.Domain
                                                 /\ r.Status = "Active"))
                   ELSE NameColumn(SelectSeq(d.rows, LAMBDA r : r.Role = "Associate Head"
                                                 /\ r.Status = "Active"))
              [] member_role = "Associate Head" ->
                   IF "ReportsTo" \in d.cols
                   THEN NameColumn(SelectSeq(d.rows, LAMBDA r : r.Role = "Junior Head"
                                                 /\ r.ReportsTo = member_name
                                                 /\ r.Status = "Active"))
                   ELSE NameColumn(SelectSeq(d.rows, LAMBDA r : r.Role = "Junior Head"
                                                 /\ r.Status = "Active"))
              [] OTHER -> <<>>

\* ------------------------------------------------------ Authentication Service
AuthResult(ok, user, role, msg, raised) ==
    [ok |-> ok, user |-> user, role |-> role, msg |-> msg, raised |-> raised]
AuthFail(msg) == AuthResult(FALSE, None, None, msg, FALSE)

\* "Check if user is active (unless they're dev)"
StatusGateForAll(user_role, user_status) == user_status # "Active"
StatusGate(user_role, user_status) == user_role # "Dev" /\ user_status # "Active"

authenticate_user(username, password, d) ==
    IF IsEmpty(d) THEN AuthFail("No users found")
    ELSE IF "Name" \notin d.cols THEN AuthResult(FALSE, None, None, "KeyError", TRUE)
    ELSE IF Matching(d, username) = {} THEN AuthFail("User not found")
    ELSE LET user_row == d.rows[FirstIdx(d, username)]
             user_status == IF "Status" \in d.cols THEN user_row.Status ELSE "Active"
             user_role == IF "Role" \in d.cols THEN user_row.Role ELSE ""
             stored_password == Str(user_row.Password)
             Success == AuthResult(TRUE, username, user_role, "Success", FALSE)
         IN IF StatusGate(user_role, user_status)
            THEN CASE user_status = "Pending" -> AuthFail("Account pending approval")
                   [] user_status = "Suspended" -> AuthFail("Account suspended")
                   [] OTHER -> AuthFail("Account inactive")
            ELSE IF "Password" \in d.cols
            THEN IF LooksLikeHash(stored_password)
                 THEN IF hash_password(password) = stored_password
                      THEN Success ELSE AuthFail("Invalid credentials")
                 ELSE IF password = stored_password
                      THEN Success ELSE AuthFail("Invalid credentials")
            ELSE IF password = "password123"
                 THEN Success ELSE AuthFail("Invalid credentials")

\* ------------------------------------------------ Membership Lifecycle Service
\* What a service function does before it returns: either it returns at once
\* (write = FALSE) with a result, or it hands a frame to
\* update_members_sheet_optimized (write = TRUE) and its result depends on
\* what the helper returns.
Returns(ok, msg, d) == [write |-> FALSE, ok |-> ok, msg |-> msg, df |-> d]
Writes(d) == [write |-> TRUE, ok |-> FALSE, msg |-> "", df |-> d]

SetStatus(d, i, status) == [d EXCEPT !.rows[i].Status = status]

register_user(name, password, role, d) ==
    LET first == role = "Dev" /\ IsEmpty(d)
        initial_status == IF first THEN "Active" ELSE "Pending"
        approved_by == IF first THEN "System" ELSE ""
        \* pd.concat leaves NaN in the columns new_user lacks
        new_user == MkRow(name, role, hash_password(password), initial_status, approved_by,
                          Now, IF "Domain" \in d.cols THEN "#nan" ELSE "",
                          IF "ReportsTo" \in d.cols THEN "#nan" ELSE "")
    IN IF IsEmpty(d)
       THEN Writes([cols |-> ExpectedColumns, rows |-> <<[new_user EXCEPT !.Domain = "", !.ReportsTo = ""]>>])
       ELSE IF name \in NameSet(d)
       THEN Returns(FALSE, "User already exists.", d)
       ELSE Writes([cols |-> d.cols \cup ExpectedColumns, rows |-> Append(d.rows, new_user)])

\* "Only parent Dev can approve new Devs": the parent is the first Dev row
\* whose ApprovedBy is "System"
AnyApprover(d, approver_name) == TRUE
IsParentDev(d, approver_name) ==
    LET parent_dev_row == {i \in 1..Len(d.rows) :
                             d.rows[i].Role = "Dev" /\ d.rows[i].ApprovedBy = "System"}
    IN parent_dev_row # {} /\ approver_name = d.rows[Min(parent_dev_row)].Name

approve_user(user_name, d, approver_name) ==
    IF Matching(d, user_name) = {}
    THEN Returns(FALSE, "Error approving user", d)          \* IndexError, caught
    ELSE LET user_idx == FirstIdx(d, user_name)
             user_role == d.rows[user_idx].Role
             approved == [d EXCEPT !.rows[user_idx].Status = "Active",
                                   !.rows[user_idx].ApprovedBy = approver_name]
         IN IF user_role = "Dev"
            THEN IF IsParentDev(d, approver_name)
                 THEN Writes(approved)
                 ELSE Returns(FALSE, "Only the parent Dev can approve new Devs.", d)
            ELSE Writes(approved)

suspend_user(user_name, d) ==
    IF Matching(d, user_name) = {}
    THEN Returns(FALSE, "Error suspending user", d)         \* IndexError, caught
    ELSE Writes(SetStatus(d, FirstIdx(d, user_name), "Suspended"))

reactivate_user(user_name, d) ==
    IF Matching(d, user_name) = {}
    THEN Returns(FALSE, "Error reactivating user", d)       \* IndexError, caught
    ELSE Writes(SetStatus(d, FirstIdx(d, user_name), "Active"))

delete_user(user_name, d) ==
    Writes([d EXCEPT !.rows = SelectSeq(d.rows, LAMBDA r : r.Name # user_name)])

update_user_role(user_name, new_role, d) ==
    IF Matching(d, user_name) = {}
    THEN Returns(FALSE, "Error updating user role", d)      \* IndexError, caught
    ELSE Writes([d EXCEPT !.rows[FirstIdx(d, user_name)].Role = new_role])

\* the tail of each service function: its result once the helper has returned
AfterWrite(kind, role, wrote) ==
    CASE kind = "register" ->
           IF wrote
           THEN IF role = "Dev"
                THEN [ok |-> TRUE, msg |-> "Dev registration submitted! Awaiting approval by the parent Dev."]
                ELSE [ok |-> TRUE, msg |-> "Registration successful! Your account is pending approval by a Dev."]
           ELSE [ok |-> FALSE, msg |-> "Error saving user."]
      [] kind = "approve" ->
           IF wrote THEN [ok |-> TRUE, msg |-> "approved successfully!"]
                    ELSE [ok |-> FALSE, msg |-> "Error updating user status."]
      [] kind = "suspend" ->
           IF wrote THEN [ok |-> TRUE, msg |-> "suspended successfully!"]
                    ELSE [ok |-> FALSE, msg |-> "Error suspending user."]
      [] kind = "reactivate" ->
           IF wrote THEN [ok |-> TRUE, msg |-> "reactivated successfully!"]
                    ELSE [ok |-> FALSE, msg |-> "Error reactivating user."]
      [] kind = "delete" ->
           IF wrote THEN [ok |-> TRUE, msg |-> "deleted successfully!"]
                    ELSE [ok |-> FALSE, msg |-> "Error deleting user."]
      [] OTHER ->
           IF wrote THEN [ok |-> TRUE, msg |-> "role updated"]
                    ELSE [ok |-> FALSE, msg |-> "Error updating user role."]

\* ------------------------------------------------------------------- state
VARIABLES
    members,   \* the Members worksheet
    cache,     \* st.cache_data entry of load_data_cached (members half)
    sess,      \* st.session_state of each browser session
    pc,        \* where each session's script run stands
    op,        \* the service call the run makes
    snap,      \* members_df as load_data_cached returned it to the run
    df,        \* the frame handed to update_members_sheet_optimized
    res,       \* what the service call returned
    nops,      \* service calls started
    nfails,    \* store calls that raised
    tasks,     \* the Tasks worksheet
    top,       \* the task operation the run makes
    tsnap,     \* tasks_df as load_data_cached returned it to the run
    tdf,       \* the frame handed to update_tasks_sheet_optimized
    gen        \* a call of generate_unique_taskid, by steps

vars == <<members, cache, sess, pc, op, snap, df, res, nops, nfails, tasks, top, tsnap, tdf, gen>>
taskvars == <<tasks, top, tsnap, tdf, gen>>

NoCache == [valid |-> FALSE, df |-> EmptyFrame, tasks |-> EmptyTasks]
NoTask == [kind |-> "none", id |-> None, assigned_to |-> None, role |-> None, status |-> None]
NoGen == [pc |-> "idle", existing_ids |-> {}, new_id |-> None, missed |-> FALSE, returned |-> <<>>]

\* no task operation and no TaskID generation under way
NoTaskCalls ==
    /\ top = [s \in Sessions |-> NoTask]
    /\ tsnap = [s \in Sessions |-> EmptyTasks]
    /\ tdf = [s \in Sessions |-> EmptyTasks]
    /\ gen = NoGen
LoggedOut(page) == [authenticated |-> FALSE, user_name |-> None, user_role |-> None, page |-> page]
NoOp == [kind |-> "none", name |-> None, role |-> None, approver |-> None, password |-> None]
NoRes == [ok |-> FALSE, msg |-> ""]
RegPassword == "pw"

\* The worksheet of a fresh deployment, and the worksheet once the first Dev
\* has registered on it.
Bootstrapped ==
    [cols |-> ExpectedColumns,
     rows |-> <<MkRow("a", "Dev", hash_password(RegPassword), "Active", "System", Now, "", "")>>]
InitSheets == {EmptySheet, Bootstrapped}

\* The worksheet after a Core Head registered, was approved by the first Dev
\* and was then suspended.
Staffed ==
    [cols |-> ExpectedColumns,
     rows |-> <<MkRow("a", "Dev", hash_password(RegPassword), "Active", "System", Now, "", ""),
                MkRow("7", "Core Head", hash_password(RegPassword), "Suspended", "a", Now, "", "")>>]

Init ==
    /\ members \in InitSheets
    /\ cache = NoCache
    /\ sess = [s \in Sessions |-> LoggedOut("login")]
    /\ pc = [s \in Sessions |-> "idle"]
    /\ op = [s \in Sessions |-> NoOp]
    /\ snap = [s \in Sessions |-> EmptyFrame]
    /\ df = [s \in Sessions |-> EmptyFrame]
    /\ res = [s \in Sessions |-> NoRes]
    /\ nops = 0
    /\ nfails = 0
    /\ tasks = EmptySheet
    /\ NoTaskCalls

\* load_data_cached(): the cached frame while the entry lives, else a read of
\* the worksheet, which the entry then keeps
Loaded == IF cache.valid THEN cache.df ELSE load_members(members)
LoadedTasks == IF cache.valid THEN cache.tasks ELSE load_tasks(tasks)
Filled == [valid |-> TRUE, df |-> Loaded, tasks |-> LoadedTasks]

Service(o, d) ==
    CASE o.kind = "register" -> register_user(o.name, o.password, o.role, d)
      [] o.kind = "approve" -> approve_user(o.name, d, o.approver)
      [] o.kind = "suspend" -> suspend_user(o.name, d)
      [] o.kind = "reactivate" -> reactivate_user(o.name, d)
      [] o.kind = "delete" -> delete_user(o.name, d)
      [] OTHER -> update_user_role(o.name, o.role, d)

\* a script run loads its snapshot and calls a service function, which runs
\* up to its call of the write helper
Begin(s, o) ==
    LET d == Loaded
        r == Service(o, d)
    IN /\ pc[s] = "idle"
       /\ nops < MaxOps
       /\ nops' = nops + 1
       /\ cache' = Filled
       /\ snap' = [snap EXCEPT ![s] = d]
       /\ op' = [op EXCEPT ![s] = o]
       /\ df' = [df EXCEPT ![s] = r.df]
       /\ res' = [res EXCEPT ![s] = [ok |-> r.ok, msg |-> r.msg]]
       /\ pc' = [pc EXCEPT ![s] = IF r.write THEN "clear" ELSE "ret"]
       /\ UNCHANGED <<members, sess, nfails>> /\ UNCHANGED taskvars

\* the Members frame the caller of a service function holds once it has returned:
\* approve, suspend, reactivate and the role change set cells of the caller's
\* own frame, delete_user hands its filtered frame back, and register_user
\* builds updated_df for itself and returns a flag and a message only
CallerFrame(s) ==
    IF op[s].kind = "register" THEN snap[s] ELSE df[s]

\* ---------------------------------- update_members_sheet_optimized, by steps
HelperReturns(s, wrote) ==
    /\ res' = [res EXCEPT ![s] = AfterWrite(op[s].kind, op[s].role, wrote)]
    /\ pc' = [pc EXCEPT ![s] = "ret"]

\* ws.clear(); an empty frame is not written after it
Clear(s) ==
    /\ pc[s] = "clear"
    /\ members' = EmptySheet
    /\ IF IsEmpty(df[s])
       THEN HelperReturns(s, TRUE)
       ELSE /\ pc' = [pc EXCEPT ![s] = "update"]
            /\ UNCHANGED res
    /\ UNCHANGED <<cache, sess, op, snap, df, nops, nfails>> /\ UNCHANGED taskvars

\* ws.update(...) behind a lock: refused while another session is writing
UpdateUnderLock(s) ==
    /\ pc[s] = "update"
    /\ IF \E o \in Sessions \ {s} : pc[o] \in {"update", "ret"}
       THEN members' = members /\ HelperReturns(s, FALSE)
       ELSE members' = UpdateRange(members, df[s]) /\ HelperReturns(s, TRUE)
    /\ UNCHANGED <<cache, sess, op, snap, df, nops, nfails>> /\ UNCHANGED taskvars

\* ws.update(...)
Update(s) ==
    /\ pc[s] = "update"
    /\ members' = UpdateRange(members, df[s])
    /\ HelperReturns(s, TRUE)
    /\ UNCHANGED <<cache, sess, op, snap, df, nops, nfails>> /\ UNCHANGED taskvars

\* get_worksheet, ws.clear or ws.update raises: the helper returns False
StoreFails(s) ==
    /\ pc[s] \in {"clear", "update"}
    /\ nfails < MaxFails
    /\ nfails' = nfails + 1
    /\ HelperReturns(s, FALSE)
    /\ UNCHANGED <<members, cache, sess, op, snap, df, nops>> /\ UNCHANGED taskvars

\* ws.update writes the rows and raises an exception whose text holds
\* "Response [200]": no error is shown, the helper returns False
Response200(s) ==
    /\ pc[s] = "update"
    /\ nfails < MaxFails
    /\ nfails' = nfails + 1
    /\ members' = UpdateRange(members, df[s])
    /\ HelperReturns(s, FALSE)
    /\ UNCHANGED <<cache, sess, op, snap, df, nops>> /\ UNCHANGED taskvars

\* the page code after the call: on success load_data_cached.clear(), and the
\* register page goes back to the login page; the run ends and its locals go
Return(s) ==
    /\ pc[s] = "ret"
    /\ pc' = [pc EXCEPT ![s] = "idle"]
    /\ op' = [op EXCEPT ![s] = NoOp]
    /\ snap' = [snap EXCEPT ![s] = EmptyFrame]
    /\ df' = [df EXCEPT ![s] = EmptyFrame]
    /\ res' = [res EXCEPT ![s] = NoRes]
    /\ cache' = IF res[s].ok THEN NoCache ELSE cache
    /\ sess' = IF res[s].ok /\ op[s].kind = "register" /\ ~sess[s].authenticated
               THEN [sess EXCEPT ![s].page = "login"] ELSE sess
    /\ UNCHANGED <<members, nops, nfails>> /\ UNCHANGED taskvars

\* the cache entry's 30 seconds pass, or someone presses Refresh Data
Expire ==
    /\ cache.valid
    /\ cache' = NoCache
    /\ UNCHANGED <<members, sess, pc, op, snap, df, res, nops, nfails>> /\ UNCHANGED taskvars

\* --------------------------------------------- the service functions, called
\* The six functions of the Membership Lifecycle Service with any arguments:
\* a name as it was typed (text) or as a frame holds it (numericised).
ArgNames == Names \cup {Numericise(n) : n \in Names}
MkOp(kind, name, role, approver) ==
    [kind |-> kind, name |-> name, role |-> role, approver |-> approver, password |-> RegPassword]

InitRest ==
    /\ cache = NoCache
    /\ sess = [s \in Sessions |-> LoggedOut("login")]
    /\ pc = [s \in Sessions |-> "idle"]
    /\ op = [s \in Sessions |-> NoOp]
    /\ snap = [s \in Sessions |-> EmptyFrame]
    /\ df = [s \in Sessions |-> EmptyFrame]
    /\ res = [s \in Sessions |-> NoRes]
    /\ nops = 0
    /\ nfails = 0
    /\ tasks = EmptySheet
    /\ NoTaskCalls

InitSvc == members \in InitSheets \cup {Staffed} /\ InitRest

CallRegister(s) ==
    \E name \in Names, role \in FormRoles :
        /\ Len(Loaded.rows) < MaxRows
        /\ Begin(s, MkOp("register", name, role, None))

CallApprove(s) ==
    \E name \in ArgNames, approver \in ArgNames :
        Begin(s, MkOp("approve", name, None, approver))

CallSuspend(s) == \E name \in ArgNames : Begin(s, MkOp("suspend", name, None, None))

CallReactivate(s) == \E name \in ArgNames : Begin(s, MkOp("reactivate", name, None, None))

CallDelete(s) == \E name \in ArgNames : Begin(s, MkOp("delete", name, None, None))

CallUpdateRole(s) ==
    \E name \in ArgNames, role \in FormRoles : Begin(s, MkOp("role", name, role, None))

\* the calls of one cache lifetime: the entry goes when a call has succeeded
NextSvc ==
    \/ \E s \in Sessions : nops < MaxCalls /\ CallRegister(s)
    \/ \E s \in Sessions : nops < MaxCalls /\ CallApprove(s)
    \/ \E s \in Sessions : nops < MaxCalls /\ CallSuspend(s)
    \/ \E s \in Sessions : nops < MaxCalls /\ CallReactivate(s)
    \/ \E s \in Sessions : nops < MaxCalls /\ CallDelete(s)
    \/ \E s \in Sessions : nops < MaxCalls /\ CallUpdateRole(s)
    \/ \E s \in Sessions : Clear(s)
    \/ \E s \in Sessions : Update(s)
    \/ \E s \in Sessions : StoreFails(s)
    \/ \E s \in Sessions : Response200(s)
    \/ \E s \in Sessions : Return(s)

SpecSvc == InitSvc /\ [][NextSvc]_vars

\* ------------------------------------------------------------ the pages
\* sorted(all_available_users) raises on a list that mixes text and numbers,
\* and the login form is then not drawn
IsNumber(v) == Str(v) # v
Sortable(S) == \A x, y \in S : IsNumber(x) = IsNumber(y)

LoginOptions(d) ==
    {d.rows[i].Name : i \in {j \in 1..Len(d.rows) : d.rows[j].Status = "Active"}}
    \cup {d.rows[i].Name : i \in {j \in 1..Len(d.rows) : d.rows[j].Role = "Dev"}}

\* show_login_page, "Register as New User" / "Register as First User"
GoRegister(s) ==
    /\ pc[s] = "idle"
    /\ ~sess[s].authenticated
    /\ sess[s].page = "login"
    /\ sess' = [sess EXCEPT ![s].page = "register"]
    /\ cache' = Filled
    /\ UNCHANGED <<members, pc, op, snap, df, res, nops, nfails>> /\ UNCHANGED taskvars

\* show_register_page, "Back to Login"
BackToLogin(s) ==
    /\ pc[s] = "idle"
    /\ ~sess[s].authenticated
    /\ sess[s].page = "register"
    /\ sess' = [sess EXCEPT ![s].page = "login"]
    /\ cache' = Filled
    /\ UNCHANGED <<members, pc, op, snap, df, res, nops, nfails>> /\ UNCHANGED taskvars

\* show_login_page, "Sign In" with a name of the select box and a password
\* that authenticate_user accepts (a refused sign-in changes nothing)
Login(s) ==
    LET d == Loaded
    IN /\ pc[s] = "idle"
       /\ ~sess[s].authenticated
       /\ sess[s].page = "login"
       /\ ~IsEmpty(d)
       /\ Sortable(LoginOptions(d))
       /\ \E username \in LoginOptions(d), password \in Passwords :
            LET r == authenticate_user(username, password, d)
            IN /\ r.ok
               /\ sess' = [sess EXCEPT ![s] = [authenticated |-> TRUE, user_name |-> r.user,
                                               user_role |-> r.role, page |-> "dashboard"]]
       /\ cache' = Filled
       /\ UNCHANGED <<members, pc, op, snap, df, res, nops, nfails>> /\ UNCHANGED taskvars

\* show_dashboard, "Logout"
Logout(s) ==
    /\ pc[s] = "idle"
    /\ sess[s].authenticated
    /\ sess' = [sess EXCEPT ![s] = LoggedOut("login")]
    /\ cache' = Filled
    /\ UNCHANGED <<members, pc, op, snap, df, res, nops, nfails>> /\ UNCHANGED taskvars

\* show_register_page, "Register" with every field filled
Register(s) ==
    /\ ~sess[s].authenticated
    /\ sess[s].page = "register"
    /\ CallRegister(s)

\* show_dev_management is drawn for a session whose user_role is Dev; the
\* member actions are offered for a row of the run's snapshot
DevPage(s) == sess[s].authenticated /\ sess[s].user_role = "Dev"

Suspend(s) ==
    /\ DevPage(s)
    /\ \E i \in 1..Len(Loaded.rows) :
         /\ Loaded.rows[i].Status # "Suspended"
         /\ Begin(s, MkOp("suspend", Loaded.rows[i].Name, None, None))

Reactivate(s) ==
    /\ DevPage(s)
    /\ \E i \in 1..Len(Loaded.rows) :
         /\ Loaded.rows[i].Status = "Suspended"
         /\ Begin(s, MkOp("reactivate", Loaded.rows[i].Name, None, None))

Delete(s) ==
    /\ DevPage(s)
    /\ \E i \in 1..Len(Loaded.rows) :
         /\ Loaded.rows[i].Name # sess[s].user_name
         /\ Begin(s, MkOp("delete", Loaded.rows[i].Name, None, None))

UpdateRole(s) ==
    /\ DevPage(s)
    /\ \E i \in 1..Len(Loaded.rows), new_role \in FormRoles :
         /\ new_role # Loaded.rows[i].Role
         /\ Begin(s, MkOp("role", Loaded.rows[i].Name, new_role, None))

\* "Approve" of the member actions and of the pending approvals
Approve(s) ==
    /\ DevPage(s)
    /\ \E i \in 1..Len(Loaded.rows) :
         /\ Loaded.rows[i].Status = "Pending"
         /\ Begin(s, MkOp("approve", Loaded.rows[i].Name, None, sess[s].user_name))

\* "Reject" of the pending approvals
Reject(s) ==
    /\ DevPage(s)
    /\ \E i \in 1..Len(Loaded.rows) :
         /\ Loaded.rows[i].Status = "Pending"
         /\ Begin(s, MkOp("delete", Loaded.rows[i].Name, None, None))

Next ==
    \/ \E s \in Sessions : GoRegister(s)
    \/ \E s \in Sessions : BackToLogin(s)
    \/ \E s \in Sessions : Login(s)
    \/ \E s \in Sessions : Logout(s)
    \/ \E s \in Sessions : Register(s)
    \/ \E s \in Sessions : Suspend(s)
    \/ \E s \in Sessions : Reactivate(s)
    \/ \E s \in Sessions : Delete(s)
    \/ \E s \in Sessions : UpdateRole(s)
    \/ \E s \in Sessions : Approve(s)
    \/ \E s \in Sessions : Reject(s)
    \/ \E s \in Sessions : Clear(s)
    \/ \E s \in Sessions : Update(s)
    \/ \E s \in Sessions : StoreFails(s)
    \/ \E s \in Sessions : Response200(s)
    \/ \E s \in Sessions : Return(s)
    \/ Expire

Spec == Init /\ [][Next]_vars

\* --------------------------------------------- the dashboard of a non-Dev user
Range(q) == {q[i] : i \in 1..Len(q)}
TaskText == "t"

\* the run has loaded both tables and built the frame d; it calls
\* update_tasks_sheet_optimized(d)
TaskBegin(s, o, d) ==
    /\ pc[s] = "idle"
    /\ nops < MaxOps
    /\ nops' = nops + 1
    /\ cache' = Filled
    /\ snap' = [snap EXCEPT ![s] = Loaded]
    /\ tsnap' = [tsnap EXCEPT ![s] = LoadedTasks]
    /\ top' = [top EXCEPT ![s] = o]
    /\ tdf' = [tdf EXCEPT ![s] = d]
    /\ pc' = [pc EXCEPT ![s] = "tclear"]
    /\ UNCHANGED <<members, sess, op, df, res, nfails, tasks, gen>>

\* the "Assign Tasks" tab: shown by the role the session logged in with
AssignTask(s) ==
    LET t == LoadedTasks
        user_role == sess[s].user_role
        subordinates == get_subordinates(sess[s].user_name, Loaded)
    IN /\ sess[s].authenticated
       /\ user_role \in {"Core Head", "Domain Head", "Associate Head"}
       /\ subordinates # <<>>
       /\ Len(t.rows) < MaxRows
       /\ \E assigned_to \in Range(subordinates), task_id \in generate_unique_taskid(t) :
            LET new_task == MkTask(task_id, assigned_to, user_role, "Pending", TaskText)
            IN TaskBegin(s, [kind |-> "assign", id |-> task_id, assigned_to |-> assigned_to,
                             role |-> user_role, status |-> "Pending"],
                         IF IsEmpty(t)
                         THEN [cols |-> TaskColumns, rows |-> <<new_task>>]
                         ELSE [cols |-> t.cols \cup TaskColumns, rows |-> Append(t.rows, new_task)])

\* the "My Tasks" tab: "Update" on one of the tasks assigned to the user
UpdateTaskStatus(s) ==
    LET t == LoadedTasks
    IN /\ sess[s].authenticated
       /\ sess[s].user_role # "Dev"
       /\ ~IsEmpty(t)
       /\ "AssignedTo" \in t.cols
       /\ \E i \in 1..Len(t.rows), new_status \in TaskStatuses :
            /\ t.rows[i].AssignedTo = sess[s].user_name
            /\ t.rows[i].Status \in TaskStatuses
            /\ new_status # t.rows[i].Status
            /\ LET task_idx == Min({j \in 1..Len(t.rows) : t.rows[j].TaskID = t.rows[i].TaskID})
               IN TaskBegin(s, [kind |-> "status", id |-> t.rows[i].TaskID,
                                assigned_to |-> sess[s].user_name, role |-> None,
                                status |-> new_status],
                            [t EXCEPT !.rows[task_idx].Status = new_status])

\* ------------------------------------- update_tasks_sheet_optimized, by steps
TaskHelperReturns(s, wrote) ==
    /\ res' = [res EXCEPT ![s] = [ok |-> wrote,
                                  msg |-> IF wrote THEN "Task written" ELSE "Failed to write task"]]
    /\ pc' = [pc EXCEPT ![s] = "tret"]

TasksClear(s) ==
    /\ pc[s] = "tclear"
    /\ tasks' = EmptySheet
    /\ IF IsEmpty(tdf[s])
       THEN TaskHelperReturns(s, TRUE)
       ELSE /\ pc' = [pc EXCEPT ![s] = "tupdate"]
            /\ UNCHANGED res
    /\ UNCHANGED <<members, cache, sess, op, snap, df, nops, nfails, top, tsnap, tdf, gen>>

TasksUpdate(s) ==
    /\ pc[s] = "tupdate"
    /\ tasks' = TasksUpdateRange(tasks, tdf[s])
    /\ TaskHelperReturns(s, TRUE)
    /\ UNCHANGED <<members, cache, sess, op, snap, df, nops, nfails, top, tsnap, tdf, gen>>

TasksStoreFails(s) ==
    /\ pc[s] \in {"tclear", "tupdate"}
    /\ nfails < MaxFails
    /\ nfails' = nfails + 1
    /\ TaskHelperReturns(s, FALSE)
    /\ UNCHANGED <<members, cache, sess, op, snap, df, nops, tasks, top, tsnap, tdf, gen>>

TasksResponse200(s) ==
    /\ pc[s] = "tupdate"
    /\ nfails < MaxFails
    /\ nfails' = nfails + 1
    /\ tasks' = TasksUpdateRange(tasks, tdf[s])
    /\ TaskHelperReturns(s, FALSE)
    /\ UNCHANGED <<members, cache, sess, op, snap, df, nops, top, tsnap, tdf, gen>>

\* the page code after the helper: load_data_cached.clear() on success only;
\* the run ends and its locals go
TasksReturn(s) ==
    /\ pc[s] = "tret"
    /\ pc' = [pc EXCEPT ![s] = "idle"]
    /\ top' = [top EXCEPT ![s] = NoTask]
    /\ snap' = [snap EXCEPT ![s] = EmptyFrame]
    /\ tsnap' = [tsnap EXCEPT ![s] = EmptyTasks]
    /\ tdf' = [tdf EXCEPT ![s] = EmptyTasks]
    /\ res' = [res EXCEPT ![s] = NoRes]
    /\ cache' = IF res[s].ok THEN NoCache ELSE cache
    /\ UNCHANGED <<members, sess, op, df, nops, nfails, tasks, gen>>

\* a club whose Dev has approved a Core Head and a Domain Head, and the Tasks
\* worksheet before and after the Core Head assigned a first task
TaskTeam ==
    [cols |-> ExpectedColumns,
     rows |-> <<MkRow("d", "Dev", hash_password(RegPassword), "Active", "System", Now, "", ""),
                MkRow("a", "Core Head", hash_password(RegPassword), "Active", "d", Now, "", ""),
                MkRow("b", "Domain Head", hash_password(RegPassword), "Active", "d", Now, "", "")>>]
FirstTask == MkTask(ToString(MinTaskId), "b", "Core Head", "Pending", TaskText)
TaskSheets == {EmptySheet, [cols |-> TaskColumns, rows |-> <<FirstTask>>]}

InitTasks ==
    /\ members = TaskTeam
    /\ tasks \in TaskSheets
    /\ cache = NoCache
    /\ sess = [s \in Sessions |-> LoggedOut("login")]
    /\ pc = [s \in Sessions |-> "idle"]
    /\ op = [s \in Sessions |-> NoOp]
    /\ snap = [s \in Sessions |-> EmptyFrame]
    /\ df = [s \in Sessions |-> EmptyFrame]
    /\ res = [s \in Sessions |-> NoRes]
    /\ nops = 0
    /\ nfails = 0
    /\ NoTaskCalls

NextTasks ==
    \/ \E s \in Sessions : Login(s)
    \/ \E s \in Sessions : UpdateRole(s)
    \/ \E s \in Sessions : Clear(s)
    \/ \E s \in Sessions : Update(s)
    \/ \E s \in Sessions : StoreFails(s)
    \/ \E s \in Sessions : Response200(s)
    \/ \E s \in Sessions : Return(s)
    \/ \E s \in Sessions : AssignTask(s)
    \/ \E s \in Sessions : UpdateTaskStatus(s)
    \/ \E s \in Sessions : TasksClear(s)
    \/ \E s \in Sessions : TasksUpdate(s)
    \/ \E s \in Sessions : TasksStoreFails(s)
    \/ \E s \in Sessions : TasksResponse200(s)
    \/ \E s \in Sessions : TasksReturn(s)
    \/ Expire

SpecTasks == InitTasks /\ [][NextTasks]_vars

\* ------------------------------------- the pure functions on drawn directories
\* authenticate_user and get_subordinates are applied to what the loader makes
\* of a worksheet drawn from a bounded set: worksheets that predate the
\* Password and Status columns, and worksheets that track Domain and ReportsTo.
Caller == "s1"

StoredCredentials == {"sha256:pw", "SHA256:pw", "0123"}
AuthColumnSets == {{"Name", "Role"} \cup x : x \in SUBSET {"Password", "Status"}}
AuthRoleStatus ==
    ({"Dev"} \X Statuses) \cup ({"Core Head"} \X (Statuses \cup {""}))
AuthRows(cols) ==
    {MkRow(n, rs[1], p, rs[2], "", "", "", "") :
        n \in Names,
        rs \in IF "Status" \in cols THEN AuthRoleStatus ELSE {<<"Dev", "">>, <<"Core Head", "">>},
        p \in IF "Password" \in cols THEN StoredCredentials ELSE {""}}

InitAuth ==
    /\ \E c \in AuthColumnSets : \E k \in 0..MaxDirRows : \E r \in [1..k -> AuthRows(c)] :
           members = [cols |-> c, rows |-> r]
    /\ InitRest

AuthCall ==
    \E username \in ArgNames, password \in Passwords :
        LET d == load_members(members)
        IN /\ op[Caller].kind = "none"
           /\ snap' = [snap EXCEPT ![Caller] = d]
           /\ op' = [op EXCEPT ![Caller] = [NoOp EXCEPT !.kind = "auth", !.name = username,
                                                       !.password = password]]
           /\ res' = [res EXCEPT ![Caller] = authenticate_user(username, password, d)]
           /\ UNCHANGED <<members, cache, sess, pc, df, nops, nfails>> /\ UNCHANGED taskvars

NextAuth == AuthCall

SpecAuth == InitAuth /\ [][NextAuth]_vars

SubRoles == Roles \cup {"Guest"}
SubTeams == {<<"d1", "a">>, <<"d2", "7">>}
SubColumnSets == {ExpectedColumns, ExpectedColumns \cup {"Domain", "ReportsTo"}}
SubRows(cols) ==
    {MkRow(n, r, "", st, "", "", t[1], t[2]) :
        n \in Names, r \in SubRoles, st \in Statuses,
        t \in IF "Domain" \in cols THEN SubTeams ELSE {<<"", "">>}}

InitSub ==
    /\ \E c \in SubColumnSets : \E k \in 0..MaxDirRows : \E r \in [1..k -> SubRows(c)] :
           members = [cols |-> c, rows |-> r]
    /\ InitRest

SubCall ==
    \E member_name \in ArgNames :
        LET d == load_members(members)
        IN /\ op[Caller].kind = "none"
           /\ snap' = [snap EXCEPT ![Caller] = d]
           /\ op' = [op EXCEPT ![Caller] = [NoOp EXCEPT !.kind = "subs", !.name = member_name]]
           /\ res' = [res EXCEPT ![Caller] = [subs |-> get_subordinates(member_name, d)]]
           /\ UNCHANGED <<members, cache, sess, pc, df, nops, nfails>> /\ UNCHANGED taskvars

NextSub == SubCall

SpecSub == InitSub /\ [][NextSub]_vars

\* ------------------------------------------ generate_unique_taskid, by steps
\* The function is called on a frame drawn from a bounded set; the caller adds
\* each TaskID it gets to the frame, as the assign form does, and calls again.
GenCells == {Num(n) : n \in TaskNumbers} \cup {"x", ""}
GenColumnSets == {TaskColumns, TaskColumns \ {"TaskID"}}
GenRows == {MkTask(id, "b", "Core Head", "Pending", TaskText) : id \in GenCells}

InitGen ==
    /\ \E c \in GenColumnSets : \E k \in 0..MaxDirRows : \E r \in [1..k -> GenRows] :
           tdf = [s \in Sessions |-> IF s = Caller THEN [cols |-> c, rows |-> r] ELSE EmptyTasks]
    /\ gen = NoGen
    /\ top = [s \in Sessions |-> NoTask]
    /\ tsnap = [s \in Sessions |-> EmptyTasks]
    /\ members = EmptySheet
    /\ tasks = EmptySheet
    /\ cache = NoCache
    /\ sess = [s \in Sessions |-> LoggedOut("login")]
    /\ pc = [s \in Sessions |-> "idle"]
    /\ op = [s \in Sessions |-> NoOp]
    /\ snap = [s \in Sessions |-> EmptyFrame]
    /\ df = [s \in Sessions |-> EmptyFrame]
    /\ res = [s \in Sessions |-> NoRes]
    /\ nops = 0
    /\ nfails = 0

GenUnchanged == UNCHANGED <<members, cache, sess, pc, op, snap, df, res, nops, nfails, tasks, top, tsnap>>

\* the test of the loop, "new_id not in existing_ids"
AcceptsAboveMin(new_id, ids) == new_id \notin ids /\ new_id # Num(MinTaskId)
Accepts(new_id, ids) == new_id \notin ids

\* the call: the early return is taken for an empty frame and for a frame
\* without a TaskID column, else existing_ids is built
GenCall ==
    LET d == tdf[Caller]
    IN /\ gen.pc = "idle"
       /\ Len(gen.returned) < MaxGen
       /\ gen' = IF IsEmpty(d) \/ "TaskID" \notin d.cols
                 THEN [gen EXCEPT !.pc = "direct", !.existing_ids = {}, !.new_id = None,
                                  !.missed = FALSE]
                 ELSE [gen EXCEPT !.pc = "loop", !.existing_ids = existing_ids(d),
                                  !.new_id = None, !.missed = FALSE]
       /\ UNCHANGED tdf
       /\ GenUnchanged

\* return random.randint(100000, 999999)
GenDirect ==
    /\ gen.pc = "direct"
    /\ \E n \in TaskIdRange :
         gen' = [gen EXCEPT !.pc = "done", !.new_id = Num(n), !.returned = Append(@, Num(n))]
    /\ UNCHANGED tdf
    /\ GenUnchanged

\* one turn of the loop whose sample is free: the function returns it
GenHit ==
    /\ gen.pc = "loop"
    /\ \E n \in TaskIdRange :
         /\ Accepts(Num(n), gen.existing_ids)
         /\ gen' = [gen EXCEPT !.pc = "done", !.new_id = Num(n), !.returned = Append(@, Num(n))]
    /\ UNCHANGED tdf
    /\ GenUnchanged

\* one turn of the loop whose sample is taken: the loop goes round
GenMiss ==
    /\ gen.pc = "loop"
    /\ \E n \in TaskIdRange :
         /\ ~Accepts(Num(n), gen.existing_ids)
         /\ gen' = [gen EXCEPT !.new_id = Num(n), !.missed = TRUE]
    /\ UNCHANGED tdf
    /\ GenUnchanged

\* the caller puts the new task under the frame: pd.DataFrame([new_task]) for
\* an empty frame, pd.concat otherwise (NaN in a column the old rows lacked)
GenAccumulate ==
    LET d == tdf[Caller]
        new_task == MkTask(gen.new_id, "b", "Core Head", "Pending", TaskText)
        old == [i \in 1..Len(d.rows) |->
                   IF "TaskID" \in d.cols THEN d.rows[i] ELSE [d.rows[i] EXCEPT !.TaskID = "#nan"]]
    IN /\ gen.pc = "done"
       /\ tdf' = [tdf EXCEPT ![Caller] =
                     IF IsEmpty(d)
                     THEN [cols |-> TaskColumns, rows |-> <<new_task>>]
                     ELSE [cols |-> d.cols \cup TaskColumns, rows |-> Append(old, new_task)]]
       /\ gen' = [gen EXCEPT !.pc = "idle"]
       /\ GenUnchanged

NextGen ==
    \/ GenCall
    \/ GenDirect
    \/ GenHit
    \/ GenMiss
    \/ GenAccumulate

\* random.randint is fair: a sample that is free keeps being possible in the
\* loop, so it is drawn in the end
SpecGen == InitGen /\ [][NextGen]_vars /\ WF_vars(GenHit) /\ WF_vars(GenDirect)

\* ------------------------------------------------------------------ claims
FirstRow(d, name) == d.rows[CHOOSE i \in 1..Len(d.rows) :
                              d.rows[i].Name = name /\ \A j \in 1..(i - 1) : d.rows[j].Name # name]
Present(d, name) == \E i \in 1..Len(d.rows) : d.rows[i].Name = name
IsHexDigest(text) == text \in LowerDigests \cup UpperDigests

\* the credential rule of the specification, on a credential's text
CredentialAccepts(text, password) ==
    IF IsHexDigest(text) THEN hash_password(password) = text ELSE password = text

\* C4: authenticate decides in this order and never raises: an empty directory
\* fails with "No users found"; an absent name fails with "User not found"; a
\* member that is neither Dev nor Active fails for every password with the
\* reason keyed to its Status; any other member (a Dev of any Status included)
\* succeeds with its role iff the password matches, else "Invalid credentials".
AuthDecisionOrder ==
    op[Caller].kind = "auth" =>
        LET d == snap[Caller]
            name == op[Caller].name
            r == res[Caller]
            m == FirstRow(d, name)
            gated == m.Role # "Dev" /\ m.Status # "Active"
            reason == IF m.Status = "Pending" THEN "Account pending approval"
                      ELSE IF m.Status = "Suspended" THEN "Account suspended"
                      ELSE "Account inactive"
        IN /\ ~r.raised
           /\ IsEmpty(d) => r = AuthFail("No users found")
           /\ (~IsEmpty(d) /\ ~Present(d, name)) => r = AuthFail("User not found")
           /\ (Present(d, name) /\ gated) => r = AuthFail(reason)
           /\ (Present(d, name) /\ ~gated) =>
                 /\ r.ok <=> CredentialAccepts(Str(m.Password), op[Caller].password)
                 /\ r.ok => r.user = name /\ r.role = m.Role /\ r.msg = "Success"
                 /\ ~r.ok => r = AuthFail("Invalid credentials")

\* a Dev that is Pending or Suspended has signed in
AuthDevBypassReached ==
    /\ op[Caller].kind = "auth"
    /\ res[Caller].ok
    /\ FirstRow(snap[Caller], op[Caller].name).Role = "Dev"
    /\ FirstRow(snap[Caller], op[Caller].name).Status \in {"Pending", "Suspended"}

\* C5: for a member that passes the status gate, authenticate succeeds exactly
\* when the stored credential is a 64-digit hexadecimal string and
\* hash(password) equals it, or it is not and password equals it as raw text,
\* or the worksheet has no Password column and password is "password123" --
\* the directory being the one the loader delivers for that worksheet.
StoredCredentialRule ==
    (op[Caller].kind = "auth" /\ Present(snap[Caller], op[Caller].name)) =>
        LET d == snap[Caller]
            name == op[Caller].name
            i == CHOOSE k \in 1..Len(d.rows) : d.rows[k] = FirstRow(d, name) /\ d.rows[k].Name = name
            m == d.rows[i]
            stored == members.rows[i].Password
            expected == IF "Password" \in members.cols
                        THEN CredentialAccepts(stored, op[Caller].password)
                        ELSE op[Caller].password = "password123"
        IN ~(m.Role # "Dev" /\ m.Status # "Active") => (res[Caller].ok <=> expected)

SelfOnlyForCoreHead ==
    (op[Caller].kind = "subs" /\ Present(snap[Caller], op[Caller].name)) =>
        LET d == snap[Caller]
            name == op[Caller].name
            got == {res[Caller].subs[i] : i \in 1..Len(res[Caller].subs)}
        IN /\ \A n \in got : \E i \in 1..Len(d.rows) : d.rows[i].Name = n /\ d.rows[i].Status = "Active"
           /\ name \in got => FirstRow(d, name).Role = "Core Head"

\* C7 amended: only Active members are returned, and the requester's own name
\* is among them only when the requester is a Core Head or a Dev, or when
\* several rows of the directory carry the requester's name.
SelfOnlyForCoreHeadOrDev ==
    (op[Caller].kind = "subs" /\ Present(snap[Caller], op[Caller].name)) =>
        LET d == snap[Caller]
            name == op[Caller].name
            got == {res[Caller].subs[i] : i \in 1..Len(res[Caller].subs)}
        IN /\ \A n \in got : \E i \in 1..Len(d.rows) : d.rows[i].Name = n /\ d.rows[i].Status = "Active"
           /\ name \in got => \/ FirstRow(d, name).Role \in {"Core Head", "Dev"}
                              \/ Cardinality(Matching(d, name)) > 1

\* an Active Dev is among its own subordinates, beside a member that is not
\* Active and is left out
SelfReturnedToDevReached ==
    /\ op[Caller].kind = "subs"
    /\ Present(snap[Caller], op[Caller].name)
    /\ FirstRow(snap[Caller], op[Caller].name).Role = "Dev"
    /\ Cardinality(Matching(snap[Caller], op[Caller].name)) = 1
    /\ \E i \in 1..Len(res[Caller].subs) : res[Caller].subs[i] = op[Caller].name
    /\ \E i \in 1..Len(snap[Caller].rows) : snap[Caller].rows[i].Status # "Active"

\* C1: the Names of the Members worksheet are pairwise distinct in every
\* reachable state.
UniqueNames ==
    \A i, j \in 1..Len(members.rows) :
        i # j => members.rows[i].Name # members.rows[j].Name

\* a register call that has built its frame (it did not return early)
Built(s) ==
    /\ op[s].kind = "register"
    /\ pc[s] \in {"clear", "update"}

NewRow(s) == df[s].rows[Len(df[s].rows)]
HasDev(d) == \E i \in 1..Len(d.rows) : d.rows[i].Role = "Dev"

\* C2: a Dev registration on a directory that holds no Dev yet creates the
\* member Active and approved by "System", whether or not the directory holds
\* other members; on a directory that holds a Dev it creates it Pending with
\* an empty ApprovedBy.
FirstDevBootstrap ==
    \A s \in Sessions :
        (Built(s) /\ op[s].role = "Dev") =>
            IF HasDev(snap[s])
            THEN NewRow(s).Status = "Pending" /\ NewRow(s).ApprovedBy = ""
            ELSE NewRow(s).Status = "Active" /\ NewRow(s).ApprovedBy = "System"

\* C3: a member registered as Dev after the bootstrap Dev becomes Active only
\* through an approve by the bootstrap Dev.  register leaves ApprovedBy empty
\* and approve_user alone fills it, so on the worksheet: a Dev whose
\* ApprovedBy is empty is not Active.
PendingDevNeedsApproval ==
    \A i \in 1..Len(members.rows) :
        (members.rows[i].Role = "Dev" /\ members.rows[i].ApprovedBy = "")
            => members.rows[i].Status # "Active"

ParentDevs(d) == {i \in 1..Len(d.rows) : d.rows[i].Role = "Dev" /\ d.rows[i].ApprovedBy = "System"}
ApprovedByParent(d, approver) ==
    \E i \in ParentDevs(d) : /\ d.rows[i].Name = approver
                             /\ \A j \in ParentDevs(d) : i <= j

\* C8: a non-Dev registration creates the member Pending with an empty
\* ApprovedBy; approve of a non-Dev target sets Status=Active and
\* ApprovedBy=approver for any approver and any prior Status; approve of a Dev
\* target goes through only for the bootstrap Dev as approver, and otherwise
\* returns the not-authorized failure with the directory unchanged and no
\* write to the store.
ApproveContract ==
    \A s \in Sessions :
        /\ (Built(s) /\ op[s].role # "Dev") =>
               NewRow(s).Status = "Pending" /\ NewRow(s).ApprovedBy = ""
        /\ (op[s].kind = "approve" /\ Present(snap[s], op[s].name)) =>
               LET d == snap[s]
                   t == FirstRow(d, op[s].name)
                   allowed == t.Role # "Dev" \/ ApprovedByParent(d, op[s].approver)
               IN IF allowed
                  THEN /\ Len(df[s].rows) = Len(d.rows)
                       /\ \A i \in 1..Len(d.rows) :
                            IF d.rows[i].Name = op[s].name
                               /\ \A j \in 1..(i - 1) : d.rows[j].Name # op[s].name
                            THEN df[s].rows[i] = [d.rows[i] EXCEPT !.Status = "Active",
                                                                   !.ApprovedBy = op[s].approver]
                            ELSE df[s].rows[i] = d.rows[i]
                       /\ (pc[s] = "ret" /\ res[s].ok) => res[s].msg = "approved successfully!"
                  ELSE /\ pc[s] = "ret"
                       /\ res[s] = [ok |-> FALSE, msg |-> "Only the parent Dev can approve new Devs."]
                       /\ df[s] = d

\* approve of a Dev target by a member who is not the bootstrap Dev was refused
ApproveRefusedReached ==
    \E s \in Sessions :
        /\ op[s].kind = "approve"
        /\ pc[s] = "ret"
        /\ Present(snap[s], op[s].name)
        /\ Present(snap[s], op[s].approver)
        /\ FirstRow(snap[s], op[s].name).Role = "Dev"
        /\ ParentDevs(snap[s]) # {}
        /\ res[s].msg = "Only the parent Dev can approve new Devs."

\* the member a name denotes: a frame holds the name "7" as the number 7
SameMember(x, y) == Str(x) = Str(y)

\* C9: register fails with "User already exists." whenever the name is already
\* in the directory snapshot, and then writes nothing; when it succeeds the
\* Members worksheet is the snapshot plus exactly one new row for the name.
RegisterContract ==
    [][\A s \in Sessions :
         /\ (op[s].kind = "none" /\ op'[s].kind = "register"
             /\ \E i \in 1..Len(snap'[s].rows) : SameMember(snap'[s].rows[i].Name, op'[s].name))
                => /\ pc'[s] = "ret"
                   /\ res'[s] = [ok |-> FALSE, msg |-> "User already exists."]
                   /\ members' = members
         /\ (op[s].kind = "register" /\ pc[s] = "update" /\ pc'[s] = "ret" /\ res'[s].ok)
                => /\ Len(members'.rows) = Len(snap[s].rows) + 1
                   /\ \A i \in 1..Len(snap[s].rows) :
                        members'.rows[i] = StrRow(snap[s].rows[i])
                   /\ members'.rows[Len(members'.rows)].Name = op[s].name
      ]_vars

\* C10: suspend, reactivate, delete and changeRole fail when the name is not
\* in the directory, and then write nothing to the store.
AbsentNameFails ==
    \A s \in Sessions :
        (op[s].kind \in {"suspend", "reactivate", "delete", "role"}
         /\ ~Present(snap[s], op[s].name))
            => /\ pc[s] = "ret"
               /\ ~res[s].ok

\* the Status a lifecycle call may change, by the kind of the call
AllowedMove(kind, old, new) ==
    \/ old = new
    \/ kind = "approve" /\ old = "Pending" /\ new = "Active"
    \/ kind = "suspend" /\ old = "Active" /\ new = "Suspended"
    \/ kind = "reactivate" /\ old = "Suspended" /\ new = "Active"

\* C11: a lifecycle call changes a member's Status only along Pending->Active
\* (approve), Active->Suspended (suspend) and Suspended->Active (reactivate):
\* no call moves a Pending member to Suspended, and reactivate never turns a
\* Pending member Active.
StatusTransitions ==
    \A s \in Sessions :
        (op[s].kind \in {"approve", "suspend", "reactivate", "role"} /\ pc[s] \in {"clear", "update"})
            => \A i \in 1..Len(snap[s].rows) :
                 AllowedMove(op[s].kind, snap[s].rows[i].Status, df[s].rows[i].Status)

\* C12: the TaskIDs of the Tasks table are pairwise distinct in every reachable
\* state, whatever task creations and status updates of the sessions interleave.
UniqueTaskIDs ==
    \A i, j \in 1..Len(tasks.rows) :
        i # j => tasks.rows[i].TaskID # tasks.rows[j].TaskID

\* the numeric TaskIDs of the frame the generator was called on
NumericTaskIDs(d) ==
    IF "TaskID" \in d.cols
    THEN {d.rows[i].TaskID : i \in 1..Len(d.rows)} \cap {Num(n) : n \in TaskNumbers}
    ELSE {}
FreeIds == {Num(n) : n \in TaskIdRange} \ NumericTaskIDs(tdf[Caller])

\* C13: generate_unique_taskid returns an integer of the sampled range that is
\* not among the numeric TaskIDs of the frame it was given, and when each
\* returned ID is put into the frame before the next call no two returned IDs
\* are equal.
GeneratedIdIsFresh ==
    gen.pc = "done" =>
        /\ gen.new_id \in {Num(n) : n \in TaskIdRange}
        /\ gen.new_id \notin NumericTaskIDs(tdf[Caller])
        /\ \A i, j \in 1..Len(gen.returned) : i # j => gen.returned[i] # gen.returned[j]

\* C13 witness: a second ID was returned for a frame that already held numeric
\* TaskIDs and the first returned ID
SecondIdReturned ==
    /\ gen.pc = "done"
    /\ Len(gen.returned) = 2
    /\ Cardinality(NumericTaskIDs(tdf[Caller])) >= 1
    /\ gen.missed

\* C19: under fair sampling generate_unique_taskid returns whenever an ID of the
\* range is free, and it loops for ever only when every ID of the range is
\* among the existing IDs.
GeneratorTerminates ==
    /\ (gen.pc \in {"direct", "loop"} /\ FreeIds # {}) ~> (gen.pc = "done")
    /\ [](gen.pc = "loop" /\ FreeIds = {} => [](gen.pc = "loop"))

\* C19 witness: the loop went round on a taken sample and then returned
ReturnedAfterResample == gen.pc = "done" /\ gen.missed /\ Len(gen.returned) = 1

\* the task an assign call has put under its frame
NewTask(s) == tdf[s].rows[Len(tdf[s].rows)]
Assigning(s) == top[s].kind = "assign" /\ pc[s] \in {"tclear", "tupdate", "tret"}

\* C14: every task the assign form writes is Pending, has a TaskID that the
\* creator's task snapshot does not hold, is assigned to one of the creator's
\* subordinates in the creator's member snapshot, and carries the Role the
\* creator has in that directory, also when the role was changed after login.
AssignedTaskFields ==
    \A s \in Sessions :
        Assigning(s) =>
            /\ NewTask(s).Status = "Pending"
            /\ \A i \in 1..Len(tsnap[s].rows) : tsnap[s].rows[i].TaskID # NewTask(s).TaskID
            /\ NewTask(s).AssignedTo \in Range(get_subordinates(sess[s].user_name, snap[s]))
            /\ Present(snap[s], sess[s].user_name)
            /\ NewTask(s).Role = FirstRow(snap[s], sess[s].user_name).Role

\* no write of the Tasks worksheet stands between its clear and its update
TasksSettled == \A s \in Sessions : pc[s] # "tupdate"
TaskRowsOf(id) == {i \in 1..Len(tasks.rows) : tasks.rows[i].TaskID = StrCell(id)}

\* C15: a task that a session has put into the Tasks table stays there, and a
\* Status its assignee has set stays set, whatever the other sessions write:
\* while the run that reported the write has not ended, the settled table
\* holds the task, with the Status that run wrote.
TaskKept ==
    \A s \in Sessions :
        (pc[s] = "tret" /\ res[s].ok /\ TasksSettled) =>
            /\ TaskRowsOf(top[s].id) # {}
            /\ \A i \in TaskRowsOf(top[s].id) : tasks.rows[i].Status = top[s].status

\* the step in which a write helper's ws.update put the rows of d on the sheet
RowsWritten(before, after, rows) ==
    /\ after # before
    /\ SubSeq(after.rows, 1, Len(rows)) = rows

\* C16: either write helper reports success whenever its rows were written,
\* also when the store raised the "Response [200]" condition, and the table a
\* clear and update leave is the one the same clear and update leave again.
OverwriteReportsWritten ==
    [][\A s \in Sessions :
         /\ (pc[s] = "update" /\ pc'[s] = "ret"
             /\ RowsWritten(members, members', SheetRows(df[s])))
                => /\ res'[s].ok
                   /\ members = EmptySheet => UpdateRange(EmptySheet, df[s]) = members'
         /\ (pc[s] = "tupdate" /\ pc'[s] = "tret"
             /\ RowsWritten(tasks, tasks', TaskSheetRows(tdf[s])))
                => /\ res'[s].ok
                   /\ tasks = EmptySheet => TasksUpdateRange(EmptySheet, tdf[s]) = tasks'
      ]_vars

\* the rows a service call changed or added in its frame
ChangedRows(s) ==
    {StrRow(df[s].rows[i]) : i \in {j \in 1..Len(df[s].rows) :
                                      j > Len(snap[s].rows) \/ df[s].rows[j] # snap[s].rows[j]}}

\* C17: nothing stands between two writers of one table: a write whose store
\* calls do not raise is never refused and puts exactly its own frame at the
\* top of the sheet, whatever was written since its snapshot was taken, so a
\* lost update is reachable.
WritersNeverRefused ==
    [][\A s \in Sessions :
         (pc[s] = "update" /\ pc'[s] = "ret" /\ nfails' = nfails)
            => /\ res'[s].ok
               /\ SubSeq(members'.rows, 1, Len(df[s].rows)) = SheetRows(df[s])
      ]_vars

\* C17 witness: two sessions loaded the same snapshot, changed it differently
\* and both reported success; the table is the second writer's frame and holds
\* none of the rows the first writer changed
LostUpdateReached ==
    \E s1, s2 \in Sessions :
        /\ s1 # s2
        /\ pc[s1] = "ret" /\ pc[s2] = "ret"
        /\ res[s1].ok /\ res[s2].ok
        /\ ~IsEmpty(snap[s1])
        /\ snap[s1] = snap[s2]
        /\ df[s1] # df[s2]
        /\ members.rows = SheetRows(df[s2])
        /\ ChangedRows(s1) # {}
        /\ \A r \in ChangedRows(s1) : r \notin Range(members.rows)

Idle == \A s \in Sessions : pc[s] \in {"idle"}

\* C18: every write of the Members or Tasks table is followed by the
\* invalidation of the read cache, for every writer and every outcome of the
\* write helper: once the runs that wrote have ended, a load returns what the
\* worksheets hold.
WritesInvalidateCache ==
    (Idle /\ cache.valid) =>
        /\ cache.df = load_members(members)
        /\ cache.tasks = load_tasks(tasks)

\* a service call has returned the failure of its write helper
WriteFailed(s) ==
    /\ pc[s] = "ret"
    /\ op[s].kind \in {"register", "approve", "suspend", "reactivate", "delete", "role"}
    /\ res[s] = AfterWrite(op[s].kind, op[s].role, FALSE)

\* C20: when the store write of a service call fails, the caller holds the
\* frame the call meant to write, and writing that frame again over the
\* cleared sheet gives the intended table; register included.
FailedWriteKeepsFrame ==
    \A s \in Sessions :
        WriteFailed(s) =>
            /\ CallerFrame(s) = df[s]
            /\ UpdateRange(EmptySheet, CallerFrame(s)) = UpdateRange(EmptySheet, df[s])

\* C21: an overwrite that reported failure has left the table as it was before
\* the call or as the frame passed to it, never emptied by the clear step: when
\* the failed call is the only one made so far, the Members sheet holds the rows
\* of the caller's snapshot or the rows of the frame it tried to write.
FailedOverwriteAllOrNothing ==
    \A s \in Sessions :
        (WriteFailed(s) /\ nops = 1) =>
            \/ members.rows = SheetRows(snap[s])
            \/ members.rows = SheetRows(df[s])

\* what a load of the Members worksheet returns now
Directory == load_members(members)

\* C22: while no run is writing, a session with authenticated = TRUE names a
\* member of the Members table whose Role there is the session's role and who
\* is Active unless a Dev, and a session with authenticated = FALSE has no user
\* name, no role and is not on the dashboard.
SessionMatchesDirectory ==
    Idle =>
        \A s \in Sessions :
            IF sess[s].authenticated
            THEN /\ Present(Directory, sess[s].user_name)
                 /\ FirstRow(Directory, sess[s].user_name).Role = sess[s].user_role
                 /\ \/ FirstRow(Directory, sess[s].user_name).Status = "Active"
                    \/ sess[s].user_role = "Dev"
            ELSE /\ sess[s].user_name = None
                 /\ sess[s].user_role = None
                 /\ sess[s].page # "dashboard"

====
